---- MODULE Spec2Model ----
(***************************************************************************)
(* Model of the scalable-rest-api backend: the MySQL store (users, tasks), *)
(* the JWT token service, and the Express route handlers of the auth, task *)
(* and user controllers.  Every handler is a small state machine whose     *)
(* steps are its database queries: the code between two awaits runs        *)
(* without interruption, and requests interleave at the queries.           *)
(***************************************************************************)
EXTENDS Integers, Sequences, FiniteSets, TLC

(***************************************************************************)
(* Bounds of the model.                                                    *)
(***************************************************************************)
MaxUsers == 3        \* user ids 1..MaxUsers can be handed out by AUTO_INCREMENT
MaxTasks == 2        \* task ids 1..MaxTasks can be handed out by AUTO_INCREMENT
SeedTasks == 1       \* how many of the seed script's sample tasks are loaded
MaxTokens == 4       \* tokens the server signs before clients stop asking for more

(***************************************************************************)
(* Program constants.                                                      *)
(***************************************************************************)
JWT_EXPIRE == 7            \* days, '7d'
JWT_REFRESH_EXPIRE == 30   \* days, '30d'
MaxTime == 7               \* the clock stops here (days)

JWT_SECRET == "your_super_secret_jwt_key"
JWT_REFRESH_SECRET == "your_refresh_token_secret"

(***************************************************************************)
(* JavaScript values.  A request body is a function from the names of the  *)
(* fields it carries to their values; reading a field it does not carry    *)
(* gives undefined.                                                        *)
(***************************************************************************)
Undefined == "undefined"
Get(obj, key) == IF key \in DOMAIN obj THEN obj[key] ELSE Undefined
Empty == [k \in {} |-> Undefined]

VARIABLES
    users,        \* table users: id -> [username, email, password, role]
    tasks,        \* table tasks: id -> [title, ..., user_id]
    userAutoInc,  \* next AUTO_INCREMENT value of users.id
    taskAutoInc,  \* next AUTO_INCREMENT value of tasks.id
    tokens,       \* the signed tokens issued so far and still held by clients
    now,          \* the clock, in days
    req,          \* the requests in flight: slot -> request record
    res,          \* the response just sent, until it has left
    client        \* a browser: the state of its AuthProvider and its localStorage

vars == <<users, tasks, userAutoInc, taskAutoInc, tokens, now, req, res, client>>

\* two handlers can stand between two of their queries at the same time
Reqs == {1, 2}

(***************************************************************************)
(* The request and query results.  "X or null" is a sequence of at most    *)
(* one row, as in `results[0] || null`.                                    *)
(***************************************************************************)
Null == << >>
IsNull(x) == Len(x) = 0

\* the NULL of a column, and the null of a JSON body that is bound to it
SqlNull == "NULL"

(***************************************************************************)
(* config/database.js: query(sql, params).  pool.execute rejects with a    *)
(* TypeError when a bind parameter is undefined; query rethrows it.        *)
(***************************************************************************)
BindError(params) == \E i \in 1..Len(params) : params[i] = Undefined

(***************************************************************************)
(* bcryptjs: the hash keeps the password unreadable but comparable.        *)
(***************************************************************************)
bcryptHash(password) == <<"$2a$10$", password>>
bcryptCompare(plain, hashed) == hashed = bcryptHash(plain)

(***************************************************************************)
(* database/migrate.js: the schema (createTables) and the seed data.       *)
(***************************************************************************)
Roles == {"user", "admin"}                               \* ENUM('user','admin')
Statuses == {"pending", "in_progress", "completed", "cancelled"}
Priorities == {"low", "medium", "high", "urgent"}

SeedUsers ==
    <<[username |-> "admin", email |-> "admin@example.com",
       password |-> bcryptHash("admin123"), role |-> "admin"],
      [username |-> "john_doe", email |-> "john@example.com",
       password |-> bcryptHash("user123"), role |-> "user"]>>

SampleTasks ==
    <<[title |-> "Complete project documentation", description |-> "Write docs",
       status |-> "in_progress", priority |-> "high", due_date |-> "+7d"],
      [title |-> "Review pull requests", description |-> "Review and merge",
       status |-> "pending", priority |-> "medium", due_date |-> "+3d"],
      [title |-> "Deploy to production", description |-> "Deploy latest",
       status |-> "pending", priority |-> "urgent", due_date |-> "+1d"],
      [title |-> "Team meeting", description |-> "Weekly sync",
       status |-> "completed", priority |-> "low", due_date |-> "-2d"]>>

Min(a, b) == IF a < b THEN a ELSE b

\* seedDatabase: the two users, then the sample tasks for john_doe (id 2)
seedDatabase ==
    [users |-> [i \in 1..Len(SeedUsers) |-> SeedUsers[i]],
     tasks |-> [i \in 1..Min(SeedTasks, Len(SampleTasks)) |->
                  [title |-> SampleTasks[i].title,
                   description |-> SampleTasks[i].description,
                   status |-> SampleTasks[i].status,
                   priority |-> SampleTasks[i].priority,
                   due_date |-> SampleTasks[i].due_date,
                   user_id |-> 2]]]

(***************************************************************************)
(* Table operations, as MySQL executes the statements of the models.       *)
(***************************************************************************)
\* a users table whose email column is not UNIQUE
DuplicateEntry_usernameOnly(tbl, username, email) ==
    \E i \in DOMAIN tbl : tbl[i].username = username

\* a users table whose username column is not UNIQUE
DuplicateEntry_emailOnly(tbl, username, email) ==
    \E i \in DOMAIN tbl : tbl[i].email = email

\* users.username and users.email are UNIQUE
DuplicateEntry(tbl, username, email) ==
    \E i \in DOMAIN tbl : tbl[i].username = username \/ tbl[i].email = email

\* INSERT INTO users (username, email, password, role) VALUES (?, ?, ?, ?)
InsertUserError(tbl, row) ==
    IF BindError(<<row.username, row.email, row.role>>) THEN "TypeError"
    ELSE IF DuplicateEntry(tbl, row.username, row.email) THEN "ER_DUP_ENTRY"
    ELSE IF row.role \notin Roles \cup {SqlNull} THEN "WARN_DATA_TRUNCATED"
    ELSE ""

InsertRow(tbl, id, row) == [i \in DOMAIN tbl \cup {id} |-> IF i = id THEN row ELSE tbl[i]]
DeleteRow(tbl, id) == [i \in DOMAIN tbl \ {id} |-> tbl[i]]

\* FOREIGN KEY (user_id) REFERENCES users(id): an insert needs the parent row
ForeignKeyOk(usr, user_id) == user_id \in DOMAIN usr

\* the foreign key without ON DELETE CASCADE
CascadeDelete_none(tsk, user_id) == tsk

\* ... ON DELETE CASCADE: the tasks of a deleted user go with it
CascadeDelete(tsk, user_id) ==
    [i \in {j \in DOMAIN tsk : tsk[j].user_id # user_id} |-> tsk[i]]

(***************************************************************************)
(* models/User.js                                                          *)
(***************************************************************************)
\* SELECT id, username, email, role, ... FROM users WHERE id = ?
User_findById(id) ==
    IF id \in DOMAIN users
    THEN <<[id |-> id, username |-> users[id].username,
            email |-> users[id].email, role |-> users[id].role]>>
    ELSE Null

\* SELECT * FROM users WHERE email = ?   (the row carries the password hash)
User_findByEmail(email) ==
    IF \E i \in DOMAIN users : users[i].email = email
    THEN LET i == CHOOSE j \in DOMAIN users : users[j].email = email
         IN <<[id |-> i, username |-> users[i].username, email |-> users[i].email,
               password |-> users[i].password, role |-> users[i].role]>>
    ELSE Null

\* SELECT id, username, email, role, created_at FROM users WHERE username = ?
User_findByUsername(username) ==
    IF \E i \in DOMAIN users : users[i].username = username
    THEN User_findById(CHOOSE j \in DOMAIN users : users[j].username = username)
    ELSE Null

User_verifyPassword(plainPassword, hashedPassword) ==
    bcryptCompare(plainPassword, hashedPassword)

\* User.create: role defaults to 'user' when the caller passes undefined
User_createRow(body) ==
    [username |-> Get(body, "username"), email |-> Get(body, "email"),
     password |-> bcryptHash(Get(body, "password")),
     role |-> IF Get(body, "role") = Undefined THEN "user" ELSE Get(body, "role")]

(***************************************************************************)
(* models/Task.js                                                          *)
(***************************************************************************)
\* one row of tasks joined with its owner's username and email
TaskRow(id) ==
    [id |-> id, title |-> tasks[id].title, description |-> tasks[id].description,
     status |-> tasks[id].status, priority |-> tasks[id].priority,
     due_date |-> tasks[id].due_date, user_id |-> tasks[id].user_id,
     username |-> IF tasks[id].user_id \in DOMAIN users
                  THEN users[tasks[id].user_id].username ELSE "NULL",
     email |-> IF tasks[id].user_id \in DOMAIN users
               THEN users[tasks[id].user_id].email ELSE "NULL"]

\* SELECT t.*, u.username, u.email FROM tasks t LEFT JOIN users u ... WHERE t.id = ?
Task_findById(id) == IF id \in DOMAIN tasks THEN <<TaskRow(id)>> ELSE Null

\* a createTask that passes the body's user_id on when it has one
Task_createRow_bodyOwner(body, user_id) ==
    [title |-> Get(body, "title"), description |-> Get(body, "description"),
     status |-> IF Get(body, "status") = Undefined THEN "pending" ELSE Get(body, "status"),
     priority |-> IF Get(body, "priority") = Undefined THEN "medium"
                  ELSE Get(body, "priority"),
     due_date |-> Get(body, "due_date"),
     user_id |-> IF "user_id" \in DOMAIN body THEN body.user_id ELSE user_id]

\* Task.create: status and priority default when the caller passes undefined
Task_createRow(body, user_id) ==
    [title |-> Get(body, "title"), description |-> Get(body, "description"),
     status |-> IF Get(body, "status") = Undefined THEN "pending" ELSE Get(body, "status"),
     priority |-> IF Get(body, "priority") = Undefined THEN "medium"
                  ELSE Get(body, "priority"),
     due_date |-> Get(body, "due_date"), user_id |-> user_id]

(***************************************************************************)
(* utils/jwt.js.  A signed token is its payload, the secret that signed it *)
(* and its expiry; jwt.verify accepts a token signed with the given secret *)
(* that has not expired, and returns the payload.                          *)
(***************************************************************************)
jwtSign(payload, secret, expiresIn) ==
    [payload |-> payload, secret |-> secret, exp |-> now + expiresIn]

\* a string that is not a JWT: it decodes to nothing and carries no signature
MalformedToken == [payload |-> [id |-> 0, role |-> "none"], secret |-> "", exp |-> 0]

\* the error jwt.verify throws, "" when it returns the payload: the token is
\* decoded first, then its signature is verified, then its expiry is read
jwtVerifyError(token, secret) ==
    IF token = MalformedToken THEN "jwt malformed"
    ELSE IF token.secret # secret THEN "invalid signature"
    ELSE IF now >= token.exp THEN "jwt expired"
    ELSE ""

jwtVerify(token, secret) == jwtVerifyError(token, secret) = ""

generateAccessToken(payload) == jwtSign(payload, JWT_SECRET, JWT_EXPIRE)

\* a refresh token signed with the access secret
generateRefreshToken_accessSecret(payload) == jwtSign(payload, JWT_SECRET, JWT_REFRESH_EXPIRE)

generateRefreshToken(payload) == jwtSign(payload, JWT_REFRESH_SECRET, JWT_REFRESH_EXPIRE)

\* a verifier that reads the subject's role from the users table
verifyAccessToken_liveRole(token) ==
    IF jwtVerify(token, JWT_SECRET)
    THEN [ok |-> TRUE,
          decoded |-> IF token.payload.id \in DOMAIN users
                      THEN [id |-> token.payload.id, role |-> users[token.payload.id].role]
                      ELSE token.payload,
          error |-> ""]
    ELSE [ok |-> FALSE, decoded |-> Empty, error |-> "Invalid or expired token"]

\* a verifier that rethrows the error of jwt.verify
verifyAccessToken_rethrow(token) ==
    IF jwtVerify(token, JWT_SECRET)
    THEN [ok |-> TRUE, decoded |-> token.payload, error |-> ""]
    ELSE [ok |-> FALSE, decoded |-> Empty, error |-> jwtVerifyError(token, JWT_SECRET)]

\* the payload, or the thrown error
verifyAccessToken(token) ==
    IF jwtVerify(token, JWT_SECRET)
    THEN [ok |-> TRUE, decoded |-> token.payload, error |-> ""]
    ELSE [ok |-> FALSE, decoded |-> Empty, error |-> "Invalid or expired token"]

verifyRefreshToken(token) ==
    IF jwtVerify(token, JWT_REFRESH_SECRET)
    THEN [ok |-> TRUE, decoded |-> token.payload, error |-> ""]
    ELSE [ok |-> FALSE, decoded |-> Empty, error |-> "Invalid or expired refresh token"]

\* a token no generator of this server signed
BadToken == [payload |-> [id |-> 1, role |-> "admin"], secret |-> "forged", exp |-> 99]

\* what a client can send as a token
Presentable == tokens \cup {BadToken, MalformedToken}

(***************************************************************************)
(* middleware/auth.js and middleware/errorHandler.js                       *)
(***************************************************************************)
Anonymous == [id |-> 0, role |-> "none"]

\* protect: the principal {id, role} of the bearer token, or 401
protect(token) ==
    LET v == verifyAccessToken(token)
    IN IF v.ok
       THEN [ok |-> TRUE, user |-> [id |-> v.decoded.id, role |-> Get(v.decoded, "role")]]
       ELSE [ok |-> FALSE, user |-> Anonymous]

\* authorize('admin'): 403 unless the principal has the role
authorize(user, role) == user.role = role

\* errorHandler: the response for an error passed to next()
errorHandler(error) ==
    IF error = "ER_DUP_ENTRY"
    THEN [status |-> 400, message |-> "Duplicate field value entered"]
    ELSE IF error \in {"Invalid or expired token", "Invalid or expired refresh token"}
    THEN [status |-> 401, message |-> error]
    ELSE [status |-> 500, message |-> "Server Error"]

(***************************************************************************)
(* Requests.  A slot holds one request: the route (op), where its handler  *)
(* stands (pc), req.user, req.params.id, req.body (or req.query), the      *)
(* handler's local result of its last query, the response once sent, and   *)
(* the error its handler passed to next(), if it did.                      *)
(***************************************************************************)
Idle ==
    [op |-> "", pc |-> "idle", user |-> Anonymous, id |-> 0, body |-> Empty,
     local |-> Null, status |-> 0, message |-> "", data |-> Empty, error |-> ""]

\* no response is on its way out
Quiet == res.pc = "idle"

\* a new request takes the lowest free slot
Free(r) == Quiet /\ req[r].pc = "idle" /\ \A q \in Reqs : q < r => req[q].pc # "idle"

\* the handler in slot r stands at pc
At(r, op, pc) == Quiet /\ req[r].op = op /\ req[r].pc = pc

Begin(op, user, id, body, pc, local) ==
    [op |-> op, pc |-> pc, user |-> user, id |-> id, body |-> body,
     local |-> local, status |-> 0, message |-> "", data |-> Empty, error |-> ""]

\* res.status(status).json({message, data})
Respond(q, status, message, data) ==
    [q EXCEPT !.pc = "done", !.body = Empty, !.status = status, !.message = message,
              !.data = data]

\* the handler awaits its next query at pc; it reads the body no more
Await(q, pc) == [q EXCEPT !.pc = pc, !.body = Empty, !.local = Null]

\* next(error)
Fail(q, error) ==
    [Respond(q, errorHandler(error).status, errorHandler(error).message, Empty)
        EXCEPT !.error = error]

Unauthenticated(op) ==
    Respond(Begin(op, Anonymous, 0, Empty, "gate", Null), 401,
            "Not authorized to access this route", Empty)

Forbidden(op, user) ==
    Respond(Begin(op, user, 0, Empty, "gate", Null), 403,
            "User role is not authorized to access this route", Empty)

\* the handler in slot r goes on as q, or has sent its response q
Out(r, q) ==
    IF q.pc = "done"
    THEN res' = q /\ req' = [req EXCEPT ![r] = Idle]
    ELSE res' = res /\ req' = [req EXCEPT ![r] = q]

\* localStorage with none of the three entries
NoStorage == [token |-> Null, refreshToken |-> Null, user |-> Null]

\* AuthProvider as useState leaves it, before its effect has run: pending
\* holds the provider's functions that stand at their await, bearer the token
\* the profile request went out with, checked says that checkAuth has
\* finished, last names the function that returned last
AuthProviderInit ==
    [user |-> Null, loading |-> TRUE, isAuthenticated |-> FALSE, storage |-> NoStorage,
     pending |-> {}, bearer |-> Null, checked |-> FALSE, last |-> ""]

Init ==
    /\ users = seedDatabase.users
    /\ tasks = seedDatabase.tasks
    /\ userAutoInc = Len(SeedUsers) + 1
    /\ taskAutoInc = Min(SeedTasks, Len(SampleTasks)) + 1
    /\ tokens = {}
    /\ now = 0
    /\ req = [r \in Reqs |-> Idle]
    /\ res = Idle
    /\ client = AuthProviderInit

DB == <<users, tasks, userAutoInc, taskAutoInc>>

(***************************************************************************)
(* What clients send.                                                      *)
(***************************************************************************)
UserIds == 1..MaxUsers
TaskIds == 1..MaxTasks

RegisterBodies ==
    {[username |-> u, email |-> e, password |-> "Passw0rd1"] :
        u \in {"alice", "john_doe"}, e \in {"alice@x.com", "john@example.com"}}
    \cup {[username |-> "alice", email |-> "alice@x.com", password |-> "Passw0rd1",
           role |-> "admin"]}

LoginBodies ==
    {[email |-> e, password |-> p] :
        e \in {"admin@example.com", "john@example.com", "alice@x.com", "nobody@x.com"},
        p \in {"admin123", "user123", "Passw0rd1"}}

(***************************************************************************)
(* controllers/authController.js                                           *)
(***************************************************************************)
\* a response that carries the row of the lookup as it came
PublicUser_row(user) == user

PublicUser(user) ==
    [id |-> user.id, username |-> user.username, email |-> user.email, role |-> user.role]

\* the response q to a request whose body is kept in view
Keep(request, q) == [q EXCEPT !.body = request.body]

\* register, up to the answer of User.findByEmail
register(r) ==
    \E body \in RegisterBodies :
        /\ Free(r)
        /\ userAutoInc <= MaxUsers
        /\ LET existingUser == User_findByEmail(body.email)
               q == Begin("register", Anonymous, 0, body, "create", Null)
           IN Out(r,
                        IF ~IsNull(existingUser)
                        THEN Keep(q, Respond([q EXCEPT !.local = existingUser], 400,
                                             "User with this email already exists", Empty))
                        ELSE q)
        /\ UNCHANGED <<DB, tokens, now, client>>

\* register, from User.create to the response
register_create(r) ==
    /\ At(r, "register", "create")
    /\ LET row == User_createRow(req[r].body)
           error == InsertUserError(users, row)
           user == [id |-> userAutoInc, username |-> row.username,
                    email |-> row.email, role |-> row.role]
           accessToken == generateAccessToken([id |-> user.id, role |-> user.role])
           refreshToken == generateRefreshToken([id |-> user.id])
       IN IF error # ""
          THEN /\ Out(r, Keep(req[r], Fail(req[r], error)))
               /\ UNCHANGED <<DB, tokens, now, client>>
          ELSE /\ userAutoInc <= MaxUsers
               /\ Cardinality(tokens \cup {accessToken, refreshToken}) <= MaxTokens
               /\ users' = InsertRow(users, userAutoInc, row)
               /\ userAutoInc' = userAutoInc + 1
               /\ tokens' = tokens \cup {accessToken, refreshToken}
               /\ Out(r, Keep(req[r],
                            Respond(req[r], 201, "User registered successfully",
                                    [user |-> PublicUser(user), accessToken |-> accessToken,
                                     refreshToken |-> refreshToken])))
               /\ UNCHANGED <<tasks, taskAutoInc, now, client>>

\* the answer of login to an email no user has
login_unknownEmail(q) == Respond(q, 401, "Invalid credentials", Empty)

\* a login that tells a wrong password from an unknown email
login_wrongPassword_told(q) == Respond(q, 401, "Incorrect password", Empty)

\* the answer of login to a password that does not match
login_wrongPassword(q) == Respond(q, 401, "Invalid credentials", Empty)

login(r) ==
    \E body \in LoginBodies :
        /\ Free(r)
        /\ LET found == User_findByEmail(body.email)
               q == Begin("login", Anonymous, 0, body, "find", found)
           IN IF IsNull(found)
              THEN /\ Out(r, login_unknownEmail(q))
                   /\ UNCHANGED tokens
              ELSE LET user == found[1]
                       accessToken == generateAccessToken([id |-> user.id, role |-> user.role])
                       refreshToken == generateRefreshToken([id |-> user.id])
                   IN IF ~User_verifyPassword(body.password, user.password)
                      THEN /\ Out(r, login_wrongPassword(q))
                           /\ UNCHANGED tokens
                      ELSE /\ Cardinality(tokens \cup {accessToken, refreshToken}) <= MaxTokens
                           /\ tokens' = tokens \cup {accessToken, refreshToken}
                           /\ Out(r,
                                        Respond(q, 200, "Login successful",
                                                [user |-> PublicUser(user),
                                                 accessToken |-> accessToken,
                                                 refreshToken |-> refreshToken]))
        /\ UNCHANGED <<DB, now, client>>

\* the claims of the new access token, the role copied from the refresh token
RefreshPayload_fromClaim(user, decoded) == [id |-> decoded.id, role |-> Get(decoded, "role")]

\* the claims refreshToken puts in the new access token
RefreshPayload(user, decoded) == [id |-> user.id, role |-> user.role]

\* POST /auth/refresh without a refresh token in the body
refreshToken_missing(r) ==
    /\ Free(r)
    /\ Out(r,
                 Respond(Begin("refreshToken", Anonymous, 0, Empty, "verify", Null),
                         400, "Refresh token is required", Empty))
    /\ UNCHANGED <<DB, tokens, now, client>>

refreshToken(r) ==
    \E token \in Presentable :
        /\ Free(r)
        /\ LET q == Begin("refreshToken", Anonymous, 0, [refreshToken |-> token],
                          "verify", Null)
               v == verifyRefreshToken(token)
           IN IF ~v.ok
              THEN /\ Out(r, Fail(q, v.error))
                   /\ UNCHANGED tokens
              ELSE LET found == User_findById(v.decoded.id)
                   IN IF IsNull(found)
                      THEN /\ Out(r,
                                        Respond(q, 401, "User not found", Empty))
                           /\ UNCHANGED tokens
                      ELSE LET user == found[1]
                               newAccessToken ==
                                   generateAccessToken(RefreshPayload(user, v.decoded))
                           IN /\ Cardinality(tokens \cup {newAccessToken}) <= MaxTokens
                              /\ tokens' = tokens \cup {newAccessToken}
                              /\ Out(r,
                                           Respond([q EXCEPT !.local = found], 200,
                                                   "Token refreshed successfully",
                                                   [accessToken |-> newAccessToken]))
        /\ UNCHANGED <<DB, now, client>>

(***************************************************************************)
(* controllers/taskController.js with Task.update and Task.delete of       *)
(* models/Task.js                                                          *)
(***************************************************************************)
TaskFields == <<"title", "description", "status", "priority", "due_date">>

\* the full bodies also name an owner, the admin, which no handler reads
CreateBodies ==
    {[title |-> "T1", description |-> "d", priority |-> "low", due_date |-> "2026-01-01",
      user_id |-> 1],
     [title |-> "T1"]}

UpdateBodies ==
    {[title |-> "T2", description |-> "d", status |-> "completed", priority |-> "low",
      due_date |-> "2026-01-01", user_id |-> 1],
     [status |-> "cancelled"]}

\* req.query of GET /tasks (limit and offset keep their defaults)
TaskQueries == {Empty, [status |-> "completed"]}

\* createTask, up to the answer of the INSERT of Task.create
createTask(r) ==
    \E token \in Presentable, body \in CreateBodies :
        /\ Free(r)
        /\ taskAutoInc <= MaxTasks
        /\ IF ~protect(token).ok
           THEN /\ Out(r, Unauthenticated("createTask"))
                /\ UNCHANGED <<tasks, taskAutoInc>>
           ELSE LET user == protect(token).user
                    row == Task_createRow(body, user.id)
                    q == Begin("createTask", user, taskAutoInc, body, "insert", Null)
                IN IF BindError(<<row.title, row.description, row.status,
                                  row.priority, row.due_date>>)
                   THEN /\ Out(r, Fail(q, "TypeError"))
                        /\ UNCHANGED <<tasks, taskAutoInc>>
                   ELSE IF ~ForeignKeyOk(users, row.user_id)
                   THEN /\ Out(r, Fail(q, "ER_NO_REFERENCED_ROW_2"))
                        /\ UNCHANGED <<tasks, taskAutoInc>>
                   ELSE /\ tasks' = InsertRow(tasks, taskAutoInc, row)
                        /\ taskAutoInc' = taskAutoInc + 1
                        /\ Out(r, Await(q, "reload"))
        /\ UNCHANGED <<users, userAutoInc, tokens, now, client>>

\* createTask, from findById(result.insertId) to the response
createTask_reload(r) ==
    /\ At(r, "createTask", "reload")
    /\ Out(r,
                 Respond([req[r] EXCEPT !.local = Task_findById(req[r].id)], 201,
                         "Task created successfully",
                         [task |-> Task_findById(req[r].id)]))
    /\ UNCHANGED <<DB, tokens, now, client>>

\* the WHERE clause of Task.findByUserId, Task.findAll and Task.count
Matches(id, userId, filters) ==
    /\ userId = 0 \/ tasks[id].user_id = userId
    /\ Get(filters, "status") = Undefined \/ tasks[id].status = filters.status
    /\ Get(filters, "priority") = Undefined \/ tasks[id].priority = filters.priority

\* Task.findByUserId without its user_id condition
Task_findByUserId_anyOwner(userId, filters) ==
    {TaskRow(i) : i \in {j \in DOMAIN tasks : Matches(j, 0, filters)}}

\* SELECT * FROM tasks WHERE user_id = ? [AND status = ?] [AND priority = ?]
Task_findByUserId(userId, filters) == {TaskRow(i) : i \in {j \in DOMAIN tasks : Matches(j, userId, filters)}}

\* SELECT t.*, u.username, u.email FROM tasks t ... WHERE 1=1 [AND ...]
Task_findAll(filters) == {TaskRow(i) : i \in {j \in DOMAIN tasks : Matches(j, 0, filters)}}

\* Task.count without its user_id condition
Task_count_allOwners(userId, filters) ==
    Cardinality({j \in DOMAIN tasks : Matches(j, 0, filters)})

\* SELECT COUNT(*) FROM tasks WHERE 1=1 [AND user_id = ?] [AND ...]
Task_count(userId, filters) == Cardinality({j \in DOMAIN tasks : Matches(j, userId, filters)})

\* getTasks with the given token and query, up to the answer of the list query
getTasks_with(r, token, query) ==
        /\ Free(r)
        /\ IF ~protect(token).ok
           THEN Out(r, Unauthenticated("getTasks"))
           ELSE LET user == protect(token).user
                    isAdmin == user.role = "admin"
                    found == IF isAdmin THEN Task_findAll(query)
                             ELSE Task_findByUserId(user.id, query)
                IN Out(r,
                             Begin("getTasks", user, 0, query, "count", <<found>>))
        /\ UNCHANGED <<DB, tokens, now, client>>

getTasks(r) ==
    \E token \in Presentable, query \in TaskQueries : getTasks_with(r, token, query)

\* GET /tasks?priority=low
getTasks_byPriority(r) ==
    \E token \in Presentable : getTasks_with(r, token, [priority |-> "low"])

\* getTasks, from Task.count to the response
getTasks_count(r) ==
    /\ At(r, "getTasks", "count")
    /\ LET isAdmin == req[r].user.role = "admin"
           total == IF isAdmin THEN Task_count(0, req[r].body)
                    ELSE Task_count(req[r].user.id, req[r].body)
       IN Out(r,
                    Respond(req[r], 200, "",
                            [tasks |-> req[r].local[1], total |-> total]))
    /\ UNCHANGED <<DB, tokens, now, client>>

\* the response of getTask for the loaded task
getTaskResponse(q, task) ==
    IF IsNull(task)
    THEN Respond(q, 404, "Task not found", Empty)
    ELSE IF task[1].user_id # q.user.id /\ q.user.role # "admin"
    THEN Respond(q, 403, "Not authorized to access this task", Empty)
    ELSE Respond(q, 200, "", [task |-> task[1]])

getTask(r) ==
    \E token \in Presentable, id \in TaskIds :
        /\ Free(r)
        /\ IF ~protect(token).ok
           THEN Out(r, Unauthenticated("getTask"))
           ELSE LET task == Task_findById(id)
                    q == Begin("getTask", protect(token).user, id, Empty, "find", task)
                IN Out(r, getTaskResponse(q, task))
        /\ UNCHANGED <<DB, tokens, now, client>>

\* the catch block of updateTask and deleteTask
TaskError(q, message) == Respond(q, 404, message, Empty)

\* the check of Task.update and Task.delete without the comparison of owners
Unauthorized_missingOnly(task, userId) == IsNull(task)

\* the ownership check of Task.update and Task.delete
Unauthorized(task, userId) == IsNull(task) \/ task[1].user_id # userId

\* Task.update and Task.delete of a non-admin, up to the throw
Task_check(q, task) ==
    IF Unauthorized(task, q.user.id)
    THEN TaskError(q, "Task not found or unauthorized")
    ELSE q

\* an UPDATE that sets the first field only
UpdateRow_titleOnly(row, updates) == [row EXCEPT !.title = updates.title]

\* Task.update: UPDATE tasks SET title = ?, ... WHERE id = ?
UpdateRow(row, updates) ==
    [row EXCEPT !.title = updates.title, !.description = updates.description,
                !.status = updates.status, !.priority = updates.priority,
                !.due_date = updates.due_date]

\* the object updateTask passes to Task.update: all five keys, set or undefined
Updates(body) == [k \in {TaskFields[i] : i \in 1..Len(TaskFields)} |-> Get(body, k)]

\* a Task.update that also writes the user_id of the request body
Task_update_write_owner(r, q) ==
    LET updates == Updates(q.body)
    IN IF BindError([i \in 1..Len(TaskFields) |-> updates[TaskFields[i]]])
       THEN /\ Out(r, Fail(q, "TypeError"))
            /\ UNCHANGED tasks
       ELSE /\ tasks' = IF q.id \in DOMAIN tasks
                        THEN [tasks EXCEPT ![q.id] =
                                 [UpdateRow(tasks[q.id], updates)
                                     EXCEPT !.user_id = IF "user_id" \in DOMAIN q.body
                                                        THEN q.body.user_id ELSE @]]
                        ELSE tasks
            /\ Out(r, Await(q, "reload"))

\* Task.update after the ownership check: the UPDATE statement
Task_update_write(r, q) ==
    LET updates == Updates(q.body)
    IN IF BindError([i \in 1..Len(TaskFields) |-> updates[TaskFields[i]]])
       THEN /\ Out(r, Fail(q, "TypeError"))
            /\ UNCHANGED tasks
       ELSE /\ tasks' = IF q.id \in DOMAIN tasks
                        THEN [tasks EXCEPT ![q.id] = UpdateRow(tasks[q.id], updates)]
                        ELSE tasks
            /\ Out(r, Await(q, "reload"))

\* updateTask, up to the answer of the first query of Task.update: the
\* ownership check of a non-admin, the UPDATE of an admin
updateTask(r) ==
    \E token \in Presentable, id \in TaskIds, body \in UpdateBodies :
        /\ Free(r)
        /\ IF ~protect(token).ok
           THEN /\ Out(r, Unauthenticated("updateTask"))
                /\ UNCHANGED tasks
           ELSE LET user == protect(token).user
                    isAdmin == user.role = "admin"
                    task == Task_findById(id)
                IN IF isAdmin
                   THEN Task_update_write(r, Begin("updateTask", user, id, body, "write", Null))
                   ELSE /\ Out(r, Task_check(Begin("updateTask", user, id, body,
                                                    "write", task), task))
                        /\ UNCHANGED tasks
        /\ UNCHANGED <<users, userAutoInc, taskAutoInc, tokens, now, client>>

\* updateTask of a non-admin: the UPDATE statement
updateTask_write(r) ==
    /\ At(r, "updateTask", "write")
    /\ Task_update_write(r, req[r])
    /\ UNCHANGED <<users, userAutoInc, taskAutoInc, tokens, now, client>>

\* updateTask, from the findById that ends Task.update to the response
updateTask_reload(r) ==
    /\ At(r, "updateTask", "reload")
    /\ Out(r,
                 Respond([req[r] EXCEPT !.local = Task_findById(req[r].id)], 200,
                         "Task updated successfully",
                         [task |-> Task_findById(req[r].id)]))
    /\ UNCHANGED <<DB, tokens, now, client>>

\* Task.delete after the ownership check: DELETE FROM tasks WHERE id = ?,
\* and the response of deleteTask for result.affectedRows
Task_delete_write(r, q) ==
    /\ tasks' = DeleteRow(tasks, q.id)
    /\ Out(r,
                 IF q.id \in DOMAIN tasks
                 THEN Respond(q, 200, "Task deleted successfully", Empty)
                 ELSE Respond(q, 404, "Task not found", Empty))

\* a deleteTask whose model issues the DELETE before it compares the owners
deleteTask_deleteFirst(r) ==
    \E token \in Presentable, id \in TaskIds :
        /\ Free(r)
        /\ IF ~protect(token).ok
           THEN /\ Out(r, Unauthenticated("deleteTask"))
                /\ UNCHANGED tasks
           ELSE LET user == protect(token).user
                    task == Task_findById(id)
                    q == Begin("deleteTask", user, id, Empty, "write", task)
                IN /\ tasks' = DeleteRow(tasks, id)
                   /\ Out(r, IF user.role # "admin" /\ Unauthorized(task, user.id)
                             THEN Task_check(q, task)
                             ELSE IF id \in DOMAIN tasks
                             THEN Respond(q, 200, "Task deleted successfully", Empty)
                             ELSE Respond(q, 404, "Task not found", Empty))
        /\ UNCHANGED <<users, userAutoInc, taskAutoInc, tokens, now, client>>

\* deleteTask, up to the answer of the first query of Task.delete
deleteTask(r) ==
    \E token \in Presentable, id \in TaskIds :
        /\ Free(r)
        /\ IF ~protect(token).ok
           THEN /\ Out(r, Unauthenticated("deleteTask"))
                /\ UNCHANGED tasks
           ELSE LET user == protect(token).user
                    isAdmin == user.role = "admin"
                    task == Task_findById(id)
                IN IF isAdmin
                   THEN Task_delete_write(r, Begin("deleteTask", user, id, Empty, "write", Null))
                   ELSE /\ Out(r, Task_check(Begin("deleteTask", user, id, Empty,
                                                    "write", task), task))
                        /\ UNCHANGED tasks
        /\ UNCHANGED <<users, userAutoInc, taskAutoInc, tokens, now, client>>

\* deleteTask of a non-admin: the DELETE statement
deleteTask_write(r) ==
    /\ At(r, "deleteTask", "write")
    /\ Task_delete_write(r, req[r])
    /\ UNCHANGED <<users, userAutoInc, taskAutoInc, tokens, now, client>>

\* SUM(CASE WHEN status = ? THEN 1 ELSE 0 END) over the rows: NULL over none
SumCase(rows, status) ==
    IF rows = {} THEN Null ELSE <<Cardinality({i \in rows : tasks[i].status = status})>>

\* the row of Task.getStats over the tasks with the ids rows
StatsRow(rows) ==
    [total |-> Cardinality(rows),
     completed |-> SumCase(rows, "completed"), in_progress |-> SumCase(rows, "in_progress"),
     pending |-> SumCase(rows, "pending"), cancelled |-> SumCase(rows, "cancelled")]

\* Task.getStats without its WHERE clause
Task_getStats_allOwners(userId) == StatsRow(DOMAIN tasks)

\* SELECT COUNT(*) as total, SUM(...) ... FROM tasks WHERE user_id = ?
Task_getStats(userId) == StatsRow({i \in DOMAIN tasks : tasks[i].user_id = userId})

getTaskStats(r) ==
    \E token \in Presentable :
        /\ Free(r)
        /\ IF ~protect(token).ok
           THEN Out(r, Unauthenticated("getTaskStats"))
           ELSE LET user == protect(token).user
                IN Out(r,
                             Respond(Begin("getTaskStats", user, 0, Empty, "stats", Null),
                                     200, "", [stats |-> Task_getStats(user.id)]))
        /\ UNCHANGED <<DB, tokens, now, client>>

(***************************************************************************)
(* controllers/userController.js with User.update and User.delete, behind  *)
(* router.use(protect) and router.use(authorize('admin'))                  *)
(***************************************************************************)
\* the admin sends the user's name and email back with the role, or the role
\* alone, or renames the user alice
UserUpdateBodies(id) ==
    {[username |-> IF id \in DOMAIN users THEN users[id].username ELSE "nobody",
      email |-> IF id \in DOMAIN users THEN users[id].email ELSE "nobody@x.com",
      role |-> role] : role \in Roles}
    \cup {[role |-> "admin"],
          [username |-> "alice", email |-> "alice@x.com", role |-> "user"]}

\* the /users routes behind protect alone
AdminGate_protectOnly(op, token) ==
    IF ~protect(token).ok THEN Unauthenticated(op)
    ELSE Begin(op, protect(token).user, 0, Empty, "gate", Null)

\* the gate of the /users routes
AdminGate(op, token) ==
    IF ~protect(token).ok THEN Unauthenticated(op)
    ELSE IF ~authorize(protect(token).user, "admin") THEN Forbidden(op, protect(token).user)
    ELSE Begin(op, protect(token).user, 0, Empty, "gate", Null)

\* req.query of GET /users (limit and offset keep their defaults)
UserQueries == {Empty, [role |-> "admin"]}

\* the WHERE clause of User.findAll and User.count: if (role) ... WHERE role = ?
MatchesRole(id, role) == role = Undefined \/ users[id].role = role

\* SELECT id, username, email, role, created_at, updated_at FROM users [WHERE role = ?]
User_findAll(role) ==
    {User_findById(i)[1] : i \in {j \in DOMAIN users : MatchesRole(j, role)}}

\* SELECT COUNT(*) as total FROM users [WHERE role = ?]
User_count(role) == Cardinality({j \in DOMAIN users : MatchesRole(j, role)})

\* getUsers, up to the answer of User.findAll
getUsers(r) ==
    \E token \in Presentable, query \in UserQueries :
        /\ Free(r)
        /\ LET gate == AdminGate("getUsers", token)
           IN Out(r,
                        IF gate.pc = "done" THEN gate
                        ELSE [gate EXCEPT !.body = query, !.pc = "count",
                                          !.local = <<User_findAll(Get(query, "role"))>>])
        /\ UNCHANGED <<DB, tokens, now, client>>

\* getUsers, from User.count to the response
getUsers_count(r) ==
    /\ At(r, "getUsers", "count")
    /\ Out(r,
                 Respond(req[r], 200, "",
                         [users |-> req[r].local[1],
                          total |-> User_count(Get(req[r].body, "role"))]))
    /\ UNCHANGED <<DB, tokens, now, client>>

\* the response of getUser for the loaded user
getUserResponse(q, user) ==
    IF IsNull(user)
    THEN Respond(q, 404, "User not found", Empty)
    ELSE Respond(q, 200, "", [user |-> user])

getUser(r) ==
    \E token \in Presentable, id \in UserIds :
        /\ Free(r)
        /\ LET gate == AdminGate("getUser", token)
           IN Out(r,
                        IF gate.pc = "done" THEN gate
                        ELSE getUserResponse([gate EXCEPT !.id = id, !.pc = "find",
                                                          !.local = User_findById(id)],
                                             User_findById(id)))
        /\ UNCHANGED <<DB, tokens, now, client>>

\* an allow-list that lets the password hash through
allowedFields_withPassword == {"username", "email", "role", "password"}

\* User.update: the fields it may write
allowedFields == {"username", "email", "role"}

\* User.update: Object.keys(updates).filter(key => allowedFields.includes(key))
UpdateFields(updates) == DOMAIN updates \cap allowedFields

\* UPDATE users SET <field> = ?, ... : the row after the statement
UpdateUserRow(row, updates) ==
    [k \in DOMAIN row |-> IF k \in UpdateFields(updates) THEN updates[k] ELSE row[k]]

\* User.update: the error thrown before the UPDATE statement, or by it
UpdateUserError(tbl, id, updates) ==
    IF UpdateFields(updates) = {} THEN "No valid fields to update"
    ELSE IF \E k \in UpdateFields(updates) : updates[k] = Undefined THEN "TypeError"
    ELSE IF id \notin DOMAIN tbl THEN ""
    ELSE IF DuplicateEntry(DeleteRow(tbl, id), UpdateUserRow(tbl[id], updates).username,
                           UpdateUserRow(tbl[id], updates).email)
    THEN "ER_DUP_ENTRY"
    ELSE IF UpdateUserRow(tbl[id], updates).role \notin Roles \cup {SqlNull}
    THEN "WARN_DATA_TRUNCATED"
    ELSE ""

\* updateUser with the given token, id and body, up to the answer of the
\* UPDATE of User.update
updateUser_with(r, token, id, body) ==
        /\ Free(r)
        /\ LET gate == AdminGate("updateUser", token)
               updates == [k \in {"username", "email", "role"} |-> Get(body, k)]
               error == UpdateUserError(users, id, updates)
               q == [gate EXCEPT !.id = id, !.body = body, !.pc = "update"]
           IN IF gate.pc = "done"
              THEN /\ Out(r, gate)
                   /\ UNCHANGED users
              ELSE IF error # ""
              THEN /\ Out(r, Fail(q, error))
                   /\ UNCHANGED users
              ELSE /\ users' = IF id \in DOMAIN users
                               THEN [users EXCEPT ![id] = UpdateUserRow(users[id], updates)]
                               ELSE users
                   /\ Out(r, Await(q, "reload"))
        /\ UNCHANGED <<tasks, userAutoInc, taskAutoInc, tokens, now, client>>

updateUser(r) ==
    \E token \in Presentable, id \in UserIds :
        \E body \in UserUpdateBodies(id) : updateUser_with(r, token, id, body)

\* router.put('/:id', updateUser) has no validation: the admin sends the
\* user's name and email back with null for the role
NullRoleBody(id) ==
    [username |-> IF id \in DOMAIN users THEN users[id].username ELSE "nobody",
     email |-> IF id \in DOMAIN users THEN users[id].email ELSE "nobody@x.com",
     role |-> SqlNull]

updateUser_nullRole(r) ==
    \E token \in Presentable, id \in UserIds :
        updateUser_with(r, token, id, NullRoleBody(id))

\* updateUser, from the findById that ends User.update to the response
updateUser_reload(r) ==
    /\ At(r, "updateUser", "reload")
    /\ Out(r,
                 Respond([req[r] EXCEPT !.local = User_findById(req[r].id)], 200,
                         "User updated successfully",
                         [user |-> User_findById(req[r].id)]))
    /\ UNCHANGED <<DB, tokens, now, client>>

(***************************************************************************)
(* models/User.js: User.update(id, updates) called with any update set, as *)
(* a caller other than the two controllers may: no allow-listed key, keys  *)
(* outside the list beside allowed ones, an undefined value.  The call is  *)
(* kept with its update set until it returns the reloaded user or throws.  *)
(***************************************************************************)
UpdateSets ==
    {Empty,
     [password |-> bcryptHash("Hacked001"), id |-> 9,
      created_at |-> "2000-01-01"],
     [username |-> "zed", password |-> bcryptHash("Hacked001")],
     [email |-> "zed@x.com", role |-> "admin", id |-> 9],
     [username |-> "alice", email |-> "alice@x.com", role |-> "user"],
     [role |-> Undefined, password |-> bcryptHash("Hacked001")]}

\* User.update, up to the answer of its UPDATE, or to the error thrown
User_update(r) ==
    \E id \in UserIds, updates \in UpdateSets :
        /\ Free(r)
        /\ LET q == Begin("User.update", Anonymous, id, updates, "reload", Null)
               error == UpdateUserError(users, id, updates)
           IN IF error # ""
              THEN /\ Out(r, [q EXCEPT !.pc = "done", !.error = error])
                   /\ UNCHANGED users
              ELSE /\ users' = IF id \in DOMAIN users
                               THEN [users EXCEPT ![id] = UpdateUserRow(users[id], updates)]
                               ELSE users
                   /\ Out(r, q)
        /\ UNCHANGED <<tasks, userAutoInc, taskAutoInc, tokens, now, client>>

\* User.update: return await this.findById(id)
User_update_reload(r) ==
    /\ At(r, "User.update", "reload")
    /\ Out(r, [req[r] EXCEPT !.pc = "done", !.local = User_findById(req[r].id)])
    /\ UNCHANGED <<DB, tokens, now, client>>

(***************************************************************************)
(* controllers/authController.js: getMe and updateProfile, behind protect  *)
(***************************************************************************)
\* a profile with a role and a password in it, and a username alone
ProfileBodies ==
    {[username |-> "alice", email |-> "alice@x.com", role |-> "admin", password |-> "Hacked001"],
     [username |-> "alice"]}

getMe(r) ==
    \E token \in Presentable :
        /\ Free(r)
        /\ IF ~protect(token).ok
           THEN Out(r, Unauthenticated("getMe"))
           ELSE LET user == User_findById(protect(token).user.id)
                    q == Begin("getMe", protect(token).user, protect(token).user.id,
                               Empty, "find", user)
                IN Out(r, Respond(q, 200, "", [user |-> user]))
        /\ UNCHANGED <<DB, tokens, now, client>>

\* updateProfile with the body's role handed to User.update as well
ProfileUpdates_withRole(body) == [k \in {"username", "email", "role"} |-> Get(body, k)]

\* updateProfile with every key of the body handed to User.update
ProfileUpdates_wholeBody(body) == body

\* the object updateProfile passes to User.update: { username, email }
ProfileUpdates(body) == [k \in {"username", "email"} |-> Get(body, k)]

\* updateProfile, up to the answer of the UPDATE of User.update
updateProfile(r) ==
    \E token \in Presentable, body \in ProfileBodies :
        /\ Free(r)
        /\ IF ~protect(token).ok
           THEN /\ Out(r, Unauthenticated("updateProfile"))
                /\ UNCHANGED users
           ELSE LET user == protect(token).user
                    updates == ProfileUpdates(body)
                    error == UpdateUserError(users, user.id, updates)
                    q == Begin("updateProfile", user, user.id, body, "update", Null)
                IN IF error # ""
                   THEN /\ Out(r, Fail(q, error))
                        /\ UNCHANGED users
                   ELSE /\ users' = IF user.id \in DOMAIN users
                                    THEN [users EXCEPT
                                              ![user.id] = UpdateUserRow(users[user.id], updates)]
                                    ELSE users
                        /\ Out(r, Await(q, "reload"))
        /\ UNCHANGED <<tasks, userAutoInc, taskAutoInc, tokens, now, client>>

\* updateProfile, from the findById that ends User.update to the response
updateProfile_reload(r) ==
    /\ At(r, "updateProfile", "reload")
    /\ Out(r,
                 Respond([req[r] EXCEPT !.local = User_findById(req[r].id)], 200,
                         "Profile updated successfully",
                         [user |-> User_findById(req[r].id)]))
    /\ UNCHANGED <<DB, tokens, now, client>>

\* deleteUser without its guard on the caller's own id
SelfDelete_never(id, user) == FALSE

\* parseInt(req.params.id) === req.user.id
SelfDelete(id, user) == id = user.id

deleteUser(r) ==
    \E token \in Presentable, id \in UserIds :
        /\ Free(r)
        /\ LET gate == AdminGate("deleteUser", token)
               q == [gate EXCEPT !.id = id, !.pc = "delete"]
           IN IF gate.pc = "done"
              THEN /\ Out(r, gate)
                   /\ UNCHANGED <<users, tasks>>
              ELSE IF SelfDelete(id, q.user)
              THEN /\ Out(r,
                                Respond(q, 400, "You cannot delete your own account", Empty))
                   /\ UNCHANGED <<users, tasks>>
              ELSE /\ users' = DeleteRow(users, id)
                   /\ tasks' = CascadeDelete(tasks, id)
                   /\ Out(r,
                                IF id \in DOMAIN users
                                THEN Respond(q, 200, "User deleted successfully", Empty)
                                ELSE Respond(q, 404, "User not found", Empty))
        /\ UNCHANGED <<userAutoInc, taskAutoInc, tokens, now, client>>

(***************************************************************************)
(* config/database.js: transaction(callback).  A call is held in a slot    *)
(* like a request: local is the list of the calls it has made so far, each *)
(* with how it ended, error is the error it will throw and data the result *)
(* it will return.  Every awaited call can reject; release cannot.         *)
(***************************************************************************)
Settled == {"ok", "rejected"}

\* the call has made one more call, which ended as given
Called(q, call, how) == [q EXCEPT !.local = Append(q.local, <<call, how>>)]

\* const connection = await pool.getConnection(): a rejection leaves
\* transaction before its try block, with no connection
transaction(r) ==
    \E how \in Settled :
        /\ Free(r)
        /\ LET q == Called(Begin("transaction", Anonymous, 0, Empty, "begin", Null),
                           "getConnection", how)
           IN Out(r, IF how = "ok" THEN q
                     ELSE [q EXCEPT !.pc = "done", !.error = "getConnection rejected"])
        /\ UNCHANGED <<DB, tokens, now, client>>

\* await connection.beginTransaction()
transaction_begin(r) ==
    \E how \in Settled :
        /\ At(r, "transaction", "begin")
        /\ LET q == Called(req[r], "beginTransaction", how)
           IN Out(r, IF how = "ok" THEN [q EXCEPT !.pc = "callback"]
                     ELSE [q EXCEPT !.pc = "rollback", !.error = "beginTransaction rejected"])
        /\ UNCHANGED <<DB, tokens, now, client>>

\* const result = await callback(connection)
transaction_callback(r) ==
    \E how \in Settled :
        /\ At(r, "transaction", "callback")
        /\ LET q == Called(req[r], "callback", how)
           IN Out(r, IF how = "ok"
                     THEN [q EXCEPT !.pc = "commit", !.data = [result |-> "result"]]
                     ELSE [q EXCEPT !.pc = "rollback", !.error = "callback rejected"])
        /\ UNCHANGED <<DB, tokens, now, client>>

\* await connection.commit(); return result
transaction_commit(r) ==
    \E how \in Settled :
        /\ At(r, "transaction", "commit")
        /\ LET q == Called(req[r], "commit", how)
           IN Out(r, IF how = "ok" THEN [q EXCEPT !.pc = "release"]
                     ELSE [q EXCEPT !.pc = "rollback", !.data = Empty,
                                    !.error = "commit rejected"])
        /\ UNCHANGED <<DB, tokens, now, client>>

\* a catch block that leaves transaction without its finally block
transaction_rollback_noFinally(r) ==
    \E how \in Settled :
        /\ At(r, "transaction", "rollback")
        /\ LET q == Called(req[r], "rollback", how)
           IN Out(r, IF how = "ok" THEN [q EXCEPT !.pc = "done"]
                     ELSE [q EXCEPT !.pc = "done", !.error = "rollback rejected"])
        /\ UNCHANGED <<DB, tokens, now, client>>

\* catch (error) { await connection.rollback(); throw error; }: a rejection
\* of rollback is thrown out of the catch block in place of error
transaction_rollback(r) ==
    \E how \in Settled :
        /\ At(r, "transaction", "rollback")
        /\ LET q == Called(req[r], "rollback", how)
           IN Out(r, IF how = "ok" THEN [q EXCEPT !.pc = "release"]
                     ELSE [q EXCEPT !.pc = "release", !.error = "rollback rejected"])
        /\ UNCHANGED <<DB, tokens, now, client>>

\* finally { connection.release(); }, then the return or the throw
transaction_release(r) ==
    /\ At(r, "transaction", "release")
    /\ Out(r, [Called(req[r], "release", "ok") EXCEPT !.pc = "done"])
    /\ UNCHANGED <<DB, tokens, now, client>>

(***************************************************************************)
(* The client's AuthProvider.  Its asynchronous functions stand at their    *)
(* await until the server's response to their request is sent; the state    *)
(* changes a function makes after its await are one render.                 *)
(***************************************************************************)

\* JSON.stringify: a string, never the object itself
JSON_stringify(value) == <<"JSON", value>>

\* the effect has run: the provider's functions can be called
Mounted == client.checked \/ "checkAuth" \in client.pending

\* the effects of logout on the state c
LoggedOut(c) == [c EXCEPT !.storage = NoStorage, !.user = Null, !.isAuthenticated = FALSE]

\* the effects of login and register, once their response has arrived
LoggedIn(c, data) ==
    [c EXCEPT !.storage = [token |-> <<data.accessToken>>,
                           refreshToken |-> <<data.refreshToken>>,
                           user |-> <<JSON_stringify(data.user)>>],
              !.user = <<data.user>>,
              !.isAuthenticated = TRUE]

\* the server has just answered the request op that fn stands waiting for
Answered(fn, op) == res.pc = "done" /\ res.op = op /\ fn \in client.pending

\* the response on the wire is the one to a profile request bearing token
ProfileOf(token) ==
    IF protect(token).ok THEN res.user = protect(token).user ELSE res.status = 401

\* the page loads: fresh state, and the effect runs checkAuth up to its await
checkAuth ==
    /\ LET token == client.storage.token
           storedUser == client.storage.user
           fresh == [AuthProviderInit EXCEPT !.storage = client.storage]
       IN client' = IF ~IsNull(token) /\ ~IsNull(storedUser)
                    THEN [fresh EXCEPT !.pending = {"checkAuth"}, !.bearer = token]
                    ELSE [fresh EXCEPT !.loading = FALSE, !.checked = TRUE,
                                       !.last = "checkAuth"]
    /\ client' # client
    /\ UNCHANGED <<DB, tokens, now, req, res>>

\* checkAuth after its await: the profile, or the catch
checkAuth_response ==
    /\ Answered("checkAuth", "getMe")
    /\ ProfileOf(client.bearer[1])
    /\ LET response == res
           after == IF response.status = 200
                    THEN [client EXCEPT !.user = response.data.user,
                                        !.isAuthenticated = TRUE]
                    ELSE LoggedOut(client)
       IN client' = [after EXCEPT !.loading = FALSE, !.checked = TRUE,
                                  !.pending = @ \ {"checkAuth"}, !.bearer = Null,
                                  !.last = "checkAuth"]
    /\ res' = Idle
    /\ UNCHANGED <<DB, tokens, now, req>>

\* login up to its await
AuthProvider_login ==
    /\ Mounted
    /\ "login" \notin client.pending
    /\ client' = [client EXCEPT !.pending = @ \cup {"login"}]
    /\ UNCHANGED <<DB, tokens, now, req, res>>

\* login after its await: a rejection leaves the state as it was
AuthProvider_login_response ==
    /\ Answered("login", "login")
    /\ LET after == IF res.status = 200 THEN LoggedIn(client, res.data) ELSE client
       IN client' = [after EXCEPT !.pending = @ \ {"login"}, !.last = "login"]
    /\ res' = Idle
    /\ UNCHANGED <<DB, tokens, now, req>>

\* register up to its await
AuthProvider_register ==
    /\ Mounted
    /\ "register" \notin client.pending
    /\ client' = [client EXCEPT !.pending = @ \cup {"register"}]
    /\ UNCHANGED <<DB, tokens, now, req, res>>

\* register after its await: a rejection leaves the state as it was
AuthProvider_register_response ==
    /\ Answered("register", "register")
    /\ LET after == IF res.status = 201 THEN LoggedIn(client, res.data) ELSE client
       IN client' = [after EXCEPT !.pending = @ \ {"register"}, !.last = "register"]
    /\ res' = Idle
    /\ UNCHANGED <<DB, tokens, now, req>>

AuthProvider_logout ==
    /\ Mounted
    /\ client' = [LoggedOut(client) EXCEPT !.last = "logout"]
    /\ client' # client
    /\ UNCHANGED <<DB, tokens, now, req, res>>

\* updateUser with a user record as the profile page receives it
AuthProvider_updateUser ==
    /\ Mounted
    /\ \E id \in DOMAIN users :
          LET updatedUser == User_findById(id)[1]
          IN client' = [client EXCEPT !.user = <<updatedUser>>,
                                      !.storage.user = <<JSON_stringify(updatedUser)>>,
                                      !.last = "updateUser"]
    /\ client' # client
    /\ UNCHANGED <<DB, tokens, now, req, res>>

\* the response has left
Reply ==
    /\ ~Quiet
    /\ res' = Idle
    /\ UNCHANGED <<DB, tokens, now, req, client>>

\* time passes until the next token expires
Tick ==
    /\ Quiet
    /\ \E t \in tokens : t.exp > now /\ t.exp <= MaxTime
    /\ now' = CHOOSE e \in {t.exp : t \in tokens} :
                /\ e > now
                /\ \A t \in tokens : t.exp > now => e <= t.exp
    /\ UNCHANGED <<DB, tokens, req, res, client>>

AuthNext ==
    \E r \in Reqs :
        \/ register(r) \/ register_create(r) \/ login(r)
        \/ refreshToken_missing(r) \/ refreshToken(r)

\* GET and PUT /auth/me
ProfileNext ==
    \E r \in Reqs : getMe(r) \/ updateProfile(r) \/ updateProfile_reload(r)

TaskNext ==
    \E r \in Reqs :
        \/ createTask(r) \/ createTask_reload(r)
        \/ getTasks(r) \/ getTasks_count(r) \/ getTask(r)
        \/ updateTask(r) \/ updateTask_write(r) \/ updateTask_reload(r)
        \/ deleteTask(r) \/ deleteTask_write(r)
        \/ getTaskStats(r)

UserNext ==
    \E r \in Reqs : updateUser(r) \/ updateUser_reload(r) \/ deleteUser(r)

\* GET /users and GET /users/:id
UserReadNext ==
    \E r \in Reqs : getUsers(r) \/ getUsers_count(r) \/ getUser(r)

\* what the browser does
AuthProviderNext ==
    \/ checkAuth \/ checkAuth_response
    \/ AuthProvider_login \/ AuthProvider_login_response
    \/ AuthProvider_register \/ AuthProvider_register_response
    \/ AuthProvider_logout \/ AuthProvider_updateUser

Next ==
    \/ AuthNext \/ ProfileNext \/ TaskNext \/ UserNext \/ UserReadNext
    \/ (\E r \in Reqs : updateUser_nullRole(r) \/ getTasks_byPriority(r))
    \/ AuthProviderNext
    \/ Reply \/ Tick

Spec == Init /\ [][Next]_vars

(***************************************************************************)
(* The authentication side alone, the clock standing still: the auth       *)
(* routes and the admin's /users routes.                                   *)
(***************************************************************************)
AuthSideNext == AuthNext \/ UserNext \/ Reply

SpecAuth == Init /\ [][AuthSideNext]_vars

(***************************************************************************)
(* Tokens over time: login, refresh, the admin's PUT /users/:id and the    *)
(* clock.                                                                  *)
(***************************************************************************)
ClockNext ==
    \/ \E r \in Reqs :
          \/ login(r) \/ refreshToken_missing(r) \/ refreshToken(r)
          \/ updateUser(r) \/ updateUser_reload(r)
    \/ Reply
    \/ Tick

SpecClock == Init /\ [][ClockNext]_vars

(***************************************************************************)
(* The resource side alone, started in the state Spec reaches when alice   *)
(* has registered and admin and john_doe have logged in: the task routes   *)
(* and the admin's DELETE /users/:id.                                      *)
(***************************************************************************)
Session(id, role) ==
    {generateAccessToken([id |-> id, role |-> role]), generateRefreshToken([id |-> id])}

InitSession ==
    /\ users = InsertRow(seedDatabase.users, 3,
                         [username |-> "alice", email |-> "alice@x.com",
                          password |-> bcryptHash("Passw0rd1"), role |-> "user"])
    /\ tasks = seedDatabase.tasks
    /\ userAutoInc = 4
    /\ taskAutoInc = Min(SeedTasks, Len(SampleTasks)) + 1
    /\ now = 0
    /\ tokens = Session(1, "admin") \cup Session(2, "user") \cup Session(3, "user")
    /\ req = [r \in Reqs |-> Idle]
    /\ res = Idle
    /\ client = AuthProviderInit

TaskSideNext == TaskNext \/ (\E r \in Reqs : deleteUser(r)) \/ Reply

SpecTasks == InitSession /\ [][TaskSideNext]_vars

(***************************************************************************)
(* GET /tasks with each of its filters, started like SpecTasks, while      *)
(* tasks are created, updated and deleted.                                 *)
(***************************************************************************)
ListSideNext ==
    \/ \E r \in Reqs :
          \/ getTasks(r) \/ getTasks_byPriority(r) \/ getTasks_count(r)
          \/ createTask(r) \/ createTask_reload(r)
          \/ updateTask(r) \/ updateTask_write(r) \/ updateTask_reload(r)
          \/ deleteTask(r) \/ deleteTask_write(r)
    \/ Reply

SpecLists == InitSession /\ [][ListSideNext]_vars

(***************************************************************************)
(* The user records alone, started like SpecTasks: GET and PUT /auth/me    *)
(* and the /users routes.                                                  *)
(***************************************************************************)
UserSideNext == ProfileNext \/ UserNext \/ UserReadNext \/ Reply

SpecUsers == InitSession /\ [][UserSideNext]_vars

(***************************************************************************)
(* The routes that store a role, from the seeded database: register and    *)
(* the admin's PUT /users/:id, null for the role included, with login for  *)
(* the tokens and PUT /auth/me.                                            *)
(***************************************************************************)
RoleSideNext ==
    \/ \E r \in Reqs :
          \/ register(r) \/ register_create(r) \/ login(r)
          \/ updateProfile(r) \/ updateProfile_reload(r)
          \/ updateUser(r) \/ updateUser_nullRole(r) \/ updateUser_reload(r)
    \/ Reply

SpecRoles == Init /\ [][RoleSideNext]_vars

(***************************************************************************)
(* transaction alone, two calls at a time.                                 *)
(***************************************************************************)
TransactionNext ==
    \/ \E r \in Reqs :
          \/ transaction(r) \/ transaction_begin(r) \/ transaction_callback(r)
          \/ transaction_commit(r) \/ transaction_rollback(r) \/ transaction_release(r)
    \/ Reply

SpecTransaction == Init /\ [][TransactionNext]_vars

(***************************************************************************)
(* A browser and the routes its AuthProvider calls, with the admin route    *)
(* that removes an account while the browser still holds its token.         *)
(***************************************************************************)
ClientNext ==
    \/ AuthProviderNext
    \/ register(1) \/ register_create(1) \/ login(1) \/ getMe(1) \/ deleteUser(1)
    \/ Reply

SpecClient == Init /\ [][ClientNext]_vars

(***************************************************************************)
(* The routes by which a user can come to hold the role admin, from the    *)
(* seeded database: the auth routes, PUT /auth/me and the admin's          *)
(* PUT /users/:id.                                                         *)
(***************************************************************************)
AdminSideNext ==
    \/ AuthNext
    \/ \E r \in Reqs :
          \/ updateProfile(r) \/ updateProfile_reload(r)
          \/ updateUser(r) \/ updateUser_reload(r)
    \/ Reply

SpecAdmins == Init /\ [][AdminSideNext]_vars

(***************************************************************************)
(* The update routes alone, started like SpecTasks: PUT /tasks/:id,        *)
(* PUT /users/:id and PUT /auth/me.                                        *)
(***************************************************************************)
UpdateSideNext ==
    \/ \E r \in Reqs :
          \/ updateTask(r) \/ updateTask_write(r) \/ updateTask_reload(r)
          \/ updateUser(r) \/ updateUser_reload(r)
          \/ updateProfile(r) \/ updateProfile_reload(r)
    \/ Reply

SpecUpdates == InitSession /\ [][UpdateSideNext]_vars

(***************************************************************************)
(* User.update alone, called concurrently on the seeded database.          *)
(***************************************************************************)
UserModelNext ==
    \/ \E r \in Reqs : User_update(r) \/ User_update_reload(r)
    \/ Reply

SpecUserUpdate == Init /\ [][UserModelNext]_vars

(***************************************************************************)
(* The routes that write usernames and emails, from the seeded database:   *)
(* register, PUT /auth/me and the admin's PUT /users/:id, with login for   *)
(* their tokens.                                                           *)
(***************************************************************************)
IdentityNext ==
    \/ \E r \in Reqs :
          \/ register(r) \/ register_create(r) \/ login(r)
          \/ updateProfile(r) \/ updateProfile_reload(r)
          \/ updateUser(r) \/ updateUser_reload(r)
    \/ Reply

SpecIdentity == Init /\ [][IdentityNext]_vars

(***************************************************************************)
(* Every route that answers with user records, from the seeded database:   *)
(* the auth routes, GET and PUT /auth/me and the /users routes, the        *)
(* admin's PUT /users/:id writing back the role a user has.                *)
(***************************************************************************)
\* PUT /users/:id with the role the user has
updateUser_sameRole(r) ==
    updateUser(r) /\ \A i \in DOMAIN users : users'[i].role = users[i].role

ExposeNext ==
    \/ AuthNext \/ ProfileNext \/ UserReadNext
    \/ \E r \in Reqs : updateUser_sameRole(r) \/ updateUser_reload(r) \/ deleteUser(r)
    \/ Reply

SpecExpose == Init /\ [][ExposeNext]_vars

(***************************************************************************)
(* Reading a step: the request a step has just taken in (after the first   *)
(* query of its handler), and the outcome of a response.                   *)
(***************************************************************************)
Outcome(q) == <<q.status, q.message>>

\* the request that arrived in this step, if one did: answered at once, or
\* now waiting in a slot for its next query
Arrived ==
    IF Quiet /\ res'.pc = "done" /\ req' = req THEN {res'}
    ELSE {req'[r] : r \in {x \in Reqs : req[x].pc = "idle" /\ req'[x].pc # "idle"}}

\* the handler that stood in a slot, if this step ended it with a response
Ended == {req[r] : r \in {x \in Reqs : req[x].pc # "idle" /\ req'[x].pc = "idle"}}

(***************************************************************************)
(* Properties of the task routes and of DELETE /users/:id (SpecTasks).     *)
(***************************************************************************)
TaskOps == {"getTask", "updateTask", "deleteTask"}

\* the response the same handler gives the same caller when no task has the id
MissingTaskResponse(q) ==
    IF q.op = "getTask" THEN getTaskResponse(q, Null) ELSE Task_check(q, Null)

\* q answers a non-admin about a task that exists and belongs to someone else
ForeignTask(q) ==
    /\ q.pc = "done" /\ q.op \in TaskOps
    /\ q.user.role = "user"
    /\ ~IsNull(q.local) /\ q.local[1].user_id # q.user.id

\* C1: a non-admin's GET, PUT or DELETE of /tasks/:id on a task owned by
\* someone else gets the status and message that the same request gets for an
\* id no task has.
C1_ForeignAsMissing ==
    ForeignTask(res) => Outcome(res) = Outcome(MissingTaskResponse(res))

\* C1 restricted to PUT and DELETE, where the code does answer alike
C1_ForeignWriteAsMissing ==
    ForeignTask(res) /\ res.op # "getTask"
        => Outcome(res) = Outcome(MissingTaskResponse(res))

\* a non-admin's PUT or DELETE on someone else's task has been answered
C1_ForeignWriteSeen == ForeignTask(res) /\ res.op # "getTask"

\* the ids of the tasks that pass the filters of a list query
Filtered(filters) ==
    {i \in DOMAIN tasks :
        /\ "status" \in DOMAIN filters => tasks[i].status = filters.status
        /\ "priority" \in DOMAIN filters => tasks[i].priority = filters.priority}

\* C2: the list query of GET /tasks returns, to a non-admin, exactly the
\* filtered tasks whose owner is the caller, and to an admin exactly the
\* filtered tasks of all owners; a non-admin's response holds no task of
\* another owner.
C2_ListScoped ==
    [][/\ \A q \in Arrived :
             q.op = "getTasks" /\ q.pc = "count" =>
                 {row.id : row \in q.local[1]} =
                     IF q.user.role = "admin" THEN Filtered(q.body)
                     ELSE {i \in Filtered(q.body) : tasks[i].user_id = q.user.id}
       /\ (res'.op = "getTasks" /\ res'.status = 200 /\ res'.user.role # "admin") =>
             \A row \in res'.data.tasks : row.user_id = res'.user.id]_vars

\* a non-admin got a non-empty list while a task of another owner exists
C2_Witness ==
    /\ res.op = "getTasks" /\ res.status = 200 /\ res.user.role = "user"
    /\ res.data.tasks # {}
    /\ \E i \in DOMAIN tasks : tasks[i].user_id # res.user.id

\* q has been refused as not permitted
Denied(q) == q.pc = "done" /\ q.status \in {403, 404}

\* C3: read, update or delete of an existing task is refused at the
\* ownership check exactly when the principal is neither an admin nor the
\* task's owner.
C3_AdminOrOwner ==
    [][\A q \in Arrived :
          (q.op \in TaskOps /\ q.user # Anonymous /\ q.id \in DOMAIN tasks) =>
              (Denied(q) <=> ~(q.user.role = "admin" \/ tasks[q.id].user_id = q.user.id))]_vars

\* an admin has read a task that belongs to someone else
C3_Witness ==
    /\ res.op = "getTask" /\ res.status = 200 /\ res.user.role = "admin"
    /\ res.local[1].user_id # res.user.id

\* C7: DELETE /users/:id by an admin on the admin's own id answers 400 and
\* leaves users and tasks as they were; on the id of another existing user
\* it answers 200 and the user is gone.
C7_NoSelfDelete ==
    [][\A q \in Arrived :
          (q.op = "deleteUser" /\ q.user.role = "admin") =>
              IF q.id = q.user.id
              THEN q.status = 400 /\ users' = users /\ tasks' = tasks
              ELSE q.id \in DOMAIN users =>
                       /\ q.status = 200
                       /\ DOMAIN users' = DOMAIN users \ {q.id}]_vars

\* an admin asked to delete the admin's own account and was refused
C7_Witness ==
    /\ res.op = "deleteUser" /\ res.status = 400
    /\ res.id = res.user.id /\ res.id \in DOMAIN users

\* C8: the owner of every task is an existing user.
C8_OwnerExists == \A i \in DOMAIN tasks : tasks[i].user_id \in DOMAIN users

\* a task creation under the token of a deleted user has failed, and the
\* deleted user owns no task
C8_Witness ==
    /\ res.op = "createTask" /\ res.status = 500
    /\ res.error = "ER_NO_REFERENCED_ROW_2"
    /\ res.user.id \notin DOMAIN users
    /\ \A i \in DOMAIN tasks : tasks[i].user_id # res.user.id

\* C13: no step changes the user_id of a task that stays, and a new task
\* gets an id no task had before, so no task passes to another owner by an
\* update or by a delete followed by a create.
C13_OwnerImmutable ==
    [][/\ \A i \in DOMAIN tasks \cap DOMAIN tasks' : tasks'[i].user_id = tasks[i].user_id
       /\ \A i \in DOMAIN tasks' \ DOMAIN tasks : i = taskAutoInc /\ taskAutoInc' > i
       /\ taskAutoInc' >= taskAutoInc]_vars

\* an admin has updated the task of another user with a body that names the
\* admin as owner: the update is applied and the owner is who it was
C13_Witness ==
    /\ res.op = "updateTask" /\ res.status = 200 /\ res.user.role = "admin"
    /\ ~IsNull(res.local)
    /\ res.local[1].title = "T2" /\ res.local[1].user_id # res.user.id

\* the handler in slot r, past its ownership check, takes its write step
\* when the task is gone; an update carries all five fields
WriteAfterDelete(r) ==
    /\ req[r].pc = "write" /\ req[r].op \in {"updateTask", "deleteTask"}
    /\ req[r].id \notin DOMAIN tasks
    /\ req[r].op = "updateTask" => \A k \in DOMAIN Updates(req[r].body) :
                                       Updates(req[r].body)[k] # Undefined
    /\ req'[r] # req[r]

\* C15: an update or delete whose task was deleted after its ownership check
\* ends at its write with the answer 404.
C15_RaceIsNotFound ==
    [][\A r \in Reqs : WriteAfterDelete(r) => res'.pc = "done" /\ res'.status = 404]_vars

\* C15 for DELETE alone, where the code does answer 404
C15_DeleteRaceIsNotFound ==
    [][\A r \in Reqs :
          (WriteAfterDelete(r) /\ req[r].op = "deleteTask") =>
              res'.pc = "done" /\ res'.status = 404 /\ res'.message = "Task not found"]_vars

\* the number of userId's tasks whose status is in S
OwnCount(userId, S) ==
    Cardinality({i \in DOMAIN tasks : tasks[i].user_id = userId /\ tasks[i].status \in S})

\* C17: the statistics GET /tasks/stats answers with count the caller's own
\* tasks and no others, in total and per status, for an admin as for anyone.
C17_StatsOwnTasks ==
    (res.op = "getTaskStats" /\ res.status = 200) =>
        LET stats == res.data.stats
            own(S) == OwnCount(res.user.id, S)
        IN /\ stats.total = own(Statuses)
           /\ \A st \in Statuses :
                 stats[st] = IF own(Statuses) = 0 THEN Null ELSE <<own({st})>>

\* an admin has got statistics that leave out the tasks of the other users
C17_Witness ==
    /\ res.op = "getTaskStats" /\ res.status = 200 /\ res.user.role = "admin"
    /\ res.data.stats.total > 0
    /\ res.data.stats.total < Cardinality(DOMAIN tasks)

(***************************************************************************)
(* Properties of the tokens over time (SpecClock).                         *)
(***************************************************************************)
IsAccessToken(t) == "role" \in DOMAIN t.payload

\* C4: verifyAccessToken accepts no token that generateRefreshToken signed,
\* and verifyRefreshToken none that generateAccessToken signed, at any time;
\* the pair a login hands out is accepted by its own verifier only, and no
\* request passes protect on a refresh token.
C4_CrossSecret ==
    /\ \A t \in tokens :
          IF IsAccessToken(t) THEN ~verifyRefreshToken(t).ok ELSE ~verifyAccessToken(t).ok
    /\ (res.op = "login" /\ res.status = 200) =>
          /\ verifyAccessToken(res.data.accessToken).ok
          /\ verifyRefreshToken(res.data.refreshToken).ok
          /\ ~verifyAccessToken(res.data.refreshToken).ok
          /\ ~verifyRefreshToken(res.data.accessToken).ok
    /\ \A r \in Reqs : req[r].user.role \in Roles \cup {SqlNull, "none"}
    /\ res.user.role \in Roles \cup {SqlNull, "none"}

\* a refresh token and an access token are out, each accepted by its verifier
C4_Witness ==
    \E a \in tokens, b \in tokens :
        /\ IsAccessToken(a) /\ verifyAccessToken(a).ok
        /\ ~IsAccessToken(b) /\ verifyRefreshToken(b).ok

\* token t verifies as an access token of the role
VerifiesAs(t, role) ==
    verifyAccessToken(t).ok /\ Get(verifyAccessToken(t).decoded, "role") = role

\* C6: an access token that verifies as role user keeps verifying as role
\* user while its expiry is ahead, whatever happens to the stored role, and
\* verifies no more once it has expired; the access token of a login or a
\* refresh carries the role stored at that moment.
C6_RoleUntilExpiry ==
    [][/\ \A t \in tokens :
             (VerifiesAs(t, "user") /\ now' < t.exp) => VerifiesAs(t, "user")'
       /\ \A t \in tokens' : now' >= t.exp => ~verifyAccessToken(t).ok'
       /\ \A q \in Arrived :
             (q.op \in {"login", "refreshToken"} /\ q.status = 200) =>
                 LET p == q.data.accessToken.payload
                 IN p.id \in DOMAIN users /\ p.role = users[p.id].role]_vars

\* a token still verifies as role user though its subject is stored as an
\* admin, and a later login of that subject has issued a token of role admin
C6_Witness ==
    \E t \in tokens, u \in tokens :
        /\ VerifiesAs(t, "user") /\ VerifiesAs(u, "admin")
        /\ t.payload.id = u.payload.id
        /\ t.payload.id \in DOMAIN users /\ users[t.payload.id].role = "admin"

(***************************************************************************)
(* Properties of the auth routes (SpecAuth).                               *)
(***************************************************************************)
\* C5: the access token of a successful POST /auth/refresh carries the id of
\* the user the handler loaded and the role stored for that user; every
\* refresh token is signed without a role claim.
C5_RefreshRole ==
    /\ (res.op = "refreshToken" /\ res.status = 200) =>
          LET p == res.data.accessToken.payload
          IN /\ p.id = res.local[1].id
             /\ p.id \in DOMAIN users
             /\ p.role = users[p.id].role
    /\ \A t \in tokens : t.secret = JWT_REFRESH_SECRET => DOMAIN t.payload = {"id"}
    /\ (res.op \in {"login", "register"} /\ res.status \in {200, 201}) =>
          DOMAIN res.data.refreshToken.payload = {"id"}

\* a refresh has issued a role that differs from the role in an access token
\* the same user still holds: the stored role changed in between
C5_Witness ==
    /\ res.op = "refreshToken" /\ res.status = 200
    /\ \E t \in tokens :
          /\ verifyAccessToken(t).ok
          /\ t.payload.id = res.data.accessToken.payload.id
          /\ t.payload.role # res.data.accessToken.payload.role

\* C9: a login that fails, on an unknown email or on a wrong password,
\* answers 401 with one and the same message, carries no data and signs no
\* token.
C9_SameFailure ==
    [][\A q \in Arrived :
          (q.op = "login" /\ q.status # 200) =>
              /\ q.status = 401
              /\ Outcome(q) = Outcome(login_unknownEmail(q))
              /\ Outcome(q) = Outcome(login_wrongPassword(q))
              /\ q.data = Empty
              /\ tokens' = tokens]_vars

\* a login with the email of a user and a wrong password has been refused
C9_Witness == res.op = "login" /\ res.status = 401 /\ ~IsNull(res.local)

\* some user has the username or the email of the body
Taken(body) ==
    \E i \in DOMAIN users : users[i].username = body.username \/ users[i].email = body.email

\* C10: a registration whose username and email are both free when User.create
\* runs answers 201 with the new user, an access token and a refresh token, and
\* adds that user; one whose username or email is taken, at the email lookup or
\* at User.create (a concurrent registration got there first), answers 400 and
\* adds no user.
C10_RegisterOrDuplicate ==
    [][/\ \A q \in Arrived :
             q.op = "register" =>
                 IF q.pc = "done"
                 THEN q.status = 400 /\ users' = users /\ tokens' = tokens /\ Taken(q.body)
                 ELSE \A i \in DOMAIN users : users[i].email # q.body.email
       /\ \A q \in Ended :
             q.op = "register" =>
                 IF Taken(q.body)
                 THEN res'.status = 400 /\ users' = users /\ tokens' = tokens
                 ELSE LET id == res'.data.user.id
                      IN /\ res'.status = 201
                         /\ id \notin DOMAIN users
                         /\ DOMAIN users' = DOMAIN users \cup {id}
                         /\ \A i \in DOMAIN users : users'[i] = users[i]
                         /\ users'[id].username = q.body.username
                         /\ users'[id].email = q.body.email
                         /\ res'.data.user.username = q.body.username
                         /\ res'.data.user.email = q.body.email
                         /\ verifyAccessToken(res'.data.accessToken).ok
                         /\ verifyAccessToken(res'.data.accessToken).decoded.id = id
                         /\ verifyRefreshToken(res'.data.refreshToken).ok
                         /\ verifyRefreshToken(res'.data.refreshToken).decoded.id = id]_vars

\* a registration whose email was free at the lookup has been refused at
\* User.create, the email having been registered in between
C10_Witness ==
    /\ res.op = "register" /\ res.status = 400 /\ res.error = "ER_DUP_ENTRY"
    /\ \E i \in DOMAIN users : users[i].email = res.body.email

(***************************************************************************)
(* Properties of POST /auth/refresh (SpecClock).                           *)
(***************************************************************************)
\* C11: POST /auth/refresh answers 200 with a new access token, or 401 with
\* no access token: no other status, whatever the request carries.
C11_RefreshOr401 ==
    (res.op = "refreshToken" /\ res.pc = "done") =>
        /\ res.status \in {200, 401}
        /\ res.status = 200 <=> "accessToken" \in DOMAIN res.data

\* C11 for the requests that carry a refresh token, where the code answers
\* as the claim says
C11_PresentedRefreshOr401 ==
    (res.op = "refreshToken" /\ res.pc = "done" /\ res.message # "Refresh token is required") =>
        /\ res.status \in {200, 401}
        /\ res.status = 200 <=> "accessToken" \in DOMAIN res.data

(***************************************************************************)
(* Properties of the user records (SpecUsers).                             *)
(***************************************************************************)
\* C12: PUT /auth/me, whatever its body, leaves the set of users, every
\* other user's record and the caller's own role and password hash as they
\* were; only the caller's username and email can differ afterwards.
C12_ProfileFrame ==
    [][/\ \A q \in Arrived :
             q.op = "updateProfile" =>
                 /\ DOMAIN users' = DOMAIN users
                 /\ \A i \in DOMAIN users :
                       IF i = q.user.id
                       THEN /\ users'[i].role = users[i].role
                            /\ users'[i].password = users[i].password
                       ELSE users'[i] = users[i]
       /\ \A q \in Ended : q.op = "updateProfile" => users' = users]_vars

\* john_doe has renamed himself alice with a body that also asked for the
\* role admin and a password: the record has the new name and email, and
\* still the role user and john_doe's password hash
C12_Witness ==
    /\ res.op = "updateProfile" /\ res.status = 200 /\ ~IsNull(res.local)
    /\ res.local[1].username = "alice" /\ res.local[1].email = "alice@x.com"
    /\ res.local[1].role = "user"
    /\ users[res.id].password = bcryptHash("user123")

UserOps == {"getUsers", "getUser", "updateUser", "deleteUser"}

\* C14: a request to a /users route whose principal is not an admin is
\* answered 401 or 403 at the gate, with no data, having read no user record
\* and changed neither users nor tasks; every handler of these routes that
\* runs, and every answer other than 401 and 403, belongs to an admin.
C14_UsersAdminOnly ==
    [][/\ \A q \in Arrived :
             (q.op \in UserOps /\ q.user.role # "admin") =>
                 /\ q.pc = "done" /\ q.status \in {401, 403}
                 /\ q.data = Empty /\ IsNull(q.local)
                 /\ users' = users /\ tasks' = tasks
       /\ \A r \in Reqs :
             (req'[r].op \in UserOps /\ req'[r].pc # "idle") => req'[r].user.role = "admin"
       /\ (res'.op \in UserOps /\ res'.pc = "done" /\ res'.status \notin {401, 403}) =>
             res'.user.role = "admin"]_vars

\* a user who is not an admin has asked a /users route with a valid access
\* token and was refused
C14_Witness == res.op \in UserOps /\ res.status = 403 /\ res.user.role = "user"

(***************************************************************************)
(* Properties of what leaves the users table (SpecExpose).                 *)
(***************************************************************************)
\* the user records in the data of response q
UserRecords(q) ==
    IF "users" \in DOMAIN q.data THEN q.data.users
    ELSE IF "user" \notin DOMAIN q.data THEN {}
    ELSE IF q.op \in {"register", "login"} THEN {q.data.user}
    ELSE {q.data.user[i] : i \in 1..Len(q.data.user)}

HoldsPassword(u) == "password" \in DOMAIN u

\* C16: no response carries a password field, in its data or in a user
\* record of its data, and no token carries one; of the lookups of the User
\* model, findByEmail returns the password hash and findById, findByUsername
\* and findAll do not.
C16_NoPasswordExposed ==
    /\ ~HoldsPassword(res.data)
    /\ \A u \in UserRecords(res) : ~HoldsPassword(u)
    /\ \A t \in tokens : ~HoldsPassword(t.payload)
    /\ \A i \in DOMAIN users :
          /\ HoldsPassword(User_findByEmail(users[i].email)[1])
          /\ ~HoldsPassword(User_findById(i)[1])
          /\ ~HoldsPassword(User_findByUsername(users[i].username)[1])
    /\ \A u \in User_findAll(Undefined) : ~HoldsPassword(u)

\* a login has succeeded: the row its handler loaded holds the password
\* hash, the user record it answers with does not
C16_Witness ==
    /\ res.op = "login" /\ res.status = 200
    /\ HoldsPassword(res.local[1])
    /\ UserRecords(res) # {}

(***************************************************************************)
(* Properties of usernames and emails (SpecIdentity).                      *)
(***************************************************************************)
\* C18: no two users have the same username, and no two the same email.
C18_UniqueIdentity ==
    \A i \in DOMAIN users : \A j \in DOMAIN users :
        i # j => /\ users[i].username # users[j].username
                 /\ users[i].email # users[j].email

\* a registration that found its email free has been refused at User.create:
\* in between, a seeded user was given that email by PUT /auth/me or by the
\* admin's PUT /users/:id
C18_Witness ==
    /\ res.op = "register" /\ res.error = "ER_DUP_ENTRY"
    /\ \E i \in DOMAIN users :
          /\ users[i].email = res.body.email
          /\ users[i].password # bcryptHash(res.body.password)

(***************************************************************************)
(* Properties of verifyAccessToken (SpecClock).                            *)
(***************************************************************************)
Expired(token) == token # MalformedToken /\ now >= token.exp

\* C19: verifyAccessToken returns the payload exactly for an unexpired token
\* signed with the access secret, and throws the same error for every other
\* token, whether it is malformed, wrongly signed or expired.
C19_OneVerifyError ==
    \A token \in Presentable :
        /\ verifyAccessToken(token).ok <=>
              /\ token # MalformedToken
              /\ token.secret = JWT_SECRET
              /\ now < token.exp
        /\ verifyAccessToken(token).ok =>
              verifyAccessToken(token).decoded = token.payload
        /\ ~verifyAccessToken(token).ok =>
              verifyAccessToken(token).error = "Invalid or expired token"

\* an expired access token, a live access token and a refresh token have been
\* issued: jwt.verify fails in its three ways and succeeds once
C19_Witness ==
    /\ \E token \in tokens : token.secret = JWT_SECRET /\ Expired(token)
    /\ \E token \in tokens : verifyAccessToken(token).ok
    /\ {jwtVerifyError(token, JWT_SECRET) : token \in Presentable}
          = {"", "jwt malformed", "invalid signature", "jwt expired"}
    /\ \A token \in Presentable :
          ~verifyAccessToken(token).ok =>
              verifyAccessToken(token).error = "Invalid or expired token"

(***************************************************************************)
(* Properties of User.update (SpecUserUpdate).                             *)
(***************************************************************************)
\* C20: a call of User.update changes no column of any row but username,
\* email and role of the row with the given id, each to the value the update
\* set has for it; whatever else the update set holds (password, id,
\* created_at) is not written.  When the update set has none of the three
\* keys the call throws 'No valid fields to update' and the table is as it
\* was.
C20_AllowList ==
    [][/\ \A q \in Arrived :
             q.op = "User.update" =>
                 /\ DOMAIN users' = DOMAIN users
                 /\ \A i \in DOMAIN users : \A k \in DOMAIN users[i] :
                       users'[i][k] # users[i][k] =>
                           /\ i = q.id
                           /\ k \in {"username", "email", "role"} \cap DOMAIN q.body
                           /\ users'[i][k] = q.body[k]
                 /\ DOMAIN q.body \cap {"username", "email", "role"} = {} =>
                       /\ q.pc = "done" /\ q.error = "No valid fields to update"
                       /\ users' = users
       /\ \A q \in Ended : q.op = "User.update" => users' = users]_vars

\* an update set of password, id and created_at has been refused, after
\* an update set of username and password renamed a seeded user zed and left
\* that user's password hash alone
C20_Witness ==
    /\ res.op = "User.update" /\ res.error = "No valid fields to update"
    /\ "password" \in DOMAIN res.body
    /\ \E i \in DOMAIN users :
          users[i].username = "zed" /\ users[i].password = SeedUsers[i].password

(***************************************************************************)
(* Properties of the tasks router's list and write routes (SpecLists).     *)
(***************************************************************************)
\* C22: every task that enters the table is inserted by a createTask handler
\* of an authenticated principal, and its user_id is that principal's id.
C22_CreatedForCaller ==
    [][/\ \A q \in Arrived :
             (q.op = "createTask" /\ q.pc = "reload") =>
                 /\ q.user # Anonymous
                 /\ q.id \in DOMAIN tasks' \ DOMAIN tasks
                 /\ tasks'[q.id].user_id = q.user.id
       /\ \A i \in DOMAIN tasks' \ DOMAIN tasks :
             \E q \in Arrived : q.op = "createTask" /\ q.pc = "reload" /\ q.id = i]_vars

\* john_doe has created a task with the body that names the admin as its
\* owner, and the task is john_doe's
C22_Witness ==
    /\ res.op = "createTask" /\ res.status = 201 /\ res.user.id = 2
    /\ ~IsNull(res.local) /\ res.local[1].title = "T1"
    /\ res.local[1].user_id = 2 /\ tasks[res.id].user_id = 2

\* C28: the total that GET /tasks answers to a non-admin is the number of
\* tasks, at the time of the count, that the caller owns and that pass the
\* status and priority filters of the request.
C28_TotalOwnFiltered ==
    [][\A r \in Reqs :
          (req[r].op = "getTasks" /\ req[r].pc = "count" /\ req'[r].pc = "idle"
           /\ req[r].user.role # "admin") =>
              /\ res'.status = 200
              /\ res'.data.total =
                    Cardinality({i \in Filtered(req[r].body) :
                                    tasks[i].user_id = req[r].user.id})]_vars

\* john_doe is told that one task is his, while the table holds his task and
\* a task of another user
C28_Witness ==
    /\ res.op = "getTasks" /\ res.status = 200 /\ res.user.id = 2
    /\ res.data.total = 1
    /\ \E i \in DOMAIN tasks : tasks[i].user_id = 2
    /\ \E i \in DOMAIN tasks : tasks[i].user_id # 2

\* C27: the step in which Task.update or Task.delete throws 'Task not found
\* or unauthorized' at a non-admin leaves the tasks table as it was, and
\* ends the handler.
C27_RejectedBeforeWrite ==
    [][\A q \in Arrived :
          (q.op \in {"updateTask", "deleteTask"} /\ q.user.role = "user"
           /\ Unauthorized(Task_findById(q.id), q.user.id)) =>
              /\ q.pc = "done" /\ q.message = "Task not found or unauthorized"
              /\ tasks' = tasks]_vars

\* alice has been refused the delete or update of john_doe's task 1, which
\* is still in the table as it was seeded
C27_Witness ==
    /\ res.op \in {"updateTask", "deleteTask"}
    /\ res.message = "Task not found or unauthorized"
    /\ res.user.id = 3 /\ res.id = 1
    /\ 1 \in DOMAIN tasks /\ tasks[1] = seedDatabase.tasks[1]

(***************************************************************************)
(* Properties of the update routes (SpecUpdates).                          *)
(***************************************************************************)
\* the row with every field of the body that the route allows set to the
\* body's value, and every other column as it was
Applied(row, body, allowed) ==
    [k \in DOMAIN row |-> IF k \in allowed \cap DOMAIN body THEN body[k] ELSE row[k]]

UpdateOps == {"updateTask", "updateUser", "updateProfile"}

\* C21: a step of an update handler leaves tasks and users as they were, or
\* changes one record to that record with the whole allow-listed field set
\* of a request body applied; a step in which an update request fails
\* changes nothing.
C21_WholeOrNothing ==
    [][/\ \/ tasks' = tasks
          \/ \E id \in DOMAIN tasks, body \in UpdateBodies :
                tasks' = [tasks EXCEPT ![id] =
                    Applied(tasks[id], body,
                            {"title", "description", "status", "priority", "due_date"})]
       /\ \/ users' = users
          \/ \E id \in DOMAIN users :
                \/ \E body \in UserUpdateBodies(id) :
                      users' = [users EXCEPT ![id] =
                          Applied(users[id], body, {"username", "email", "role"})]
                \/ \E body \in ProfileBodies :
                      users' = [users EXCEPT ![id] =
                          Applied(users[id], body, {"username", "email"})]
       /\ (res'.op \in UpdateOps /\ res'.pc = "done" /\ res'.status # 200 /\ Quiet) =>
              tasks' = tasks /\ users' = users]_vars

\* a PUT /tasks/:id with one field has been refused while task 1 holds a whole
\* update, and the admin has written john_doe's name, email and role
C21_Witness ==
    /\ res.op = "updateTask" /\ res.error = "TypeError"
    /\ 1 \in DOMAIN tasks /\ tasks[1].title = "T2" /\ tasks[1].status = "completed"
    /\ tasks[1].due_date = "2026-01-01"
    /\ users[2].username = "john_doe" /\ users[2].role = "admin"

(***************************************************************************)
(* Properties of the stored roles (SpecRoles).                             *)
(***************************************************************************)
\* C23: every user record has a role, and the role is user or admin.
C23_RoleIsUserOrAdmin == \A i \in DOMAIN users : users[i].role \in {"user", "admin"}

\* what does hold: a stored role is user, admin or NULL, and a registration
\* whose body has no role stores the role user
C23_RoleIsEnumOrNull ==
    [][/\ \A i \in DOMAIN users' : users'[i].role \in {"user", "admin", SqlNull}
       /\ \A q \in Ended :
             (q.op = "register" /\ "role" \notin DOMAIN q.body) =>
                 \A i \in DOMAIN users' \ DOMAIN users : users'[i].role = "user"]_vars

\* the handler in slot r issues the UPDATE of a PUT /tasks/:id for a task
\* that exists
TaskWrite(r) ==
    /\ req[r].op = "updateTask" /\ req[r].pc = "write" /\ req'[r].pc # "write"
    /\ req[r].id \in DOMAIN tasks

\* C24: the UPDATE of a PUT /tasks/:id sets the fields its body supplies and
\* leaves the fields it omits as they were.
C24_SuppliedFieldsApplied ==
    [][\A r \in Reqs :
          TaskWrite(r) =>
              tasks' = [tasks EXCEPT ![req[r].id] =
                  Applied(tasks[req[r].id], req[r].body,
                          {"title", "description", "status", "priority", "due_date"})]]_vars

\* what does hold: a body with all five fields is applied, and a body that
\* omits one changes nothing and is answered 500
C24_PartialRefused ==
    [][\A r \in Reqs :
          TaskWrite(r) =>
              IF {"title", "description", "status", "priority", "due_date"}
                     \subseteq DOMAIN req[r].body
              THEN tasks' = [tasks EXCEPT ![req[r].id] =
                       Applied(tasks[req[r].id], req[r].body,
                               {"title", "description", "status", "priority", "due_date"})]
              ELSE tasks' = tasks /\ res'.status = 500 /\ res'.error = "TypeError"]_vars

\* C25: a PUT /tasks/:id or PUT /users/:id that is answered 200 names a
\* record that exists.
C25_NoSuccessForMissing ==
    /\ (res.op = "updateTask" /\ res.status = 200) => res.id \in DOMAIN tasks
    /\ (res.op = "updateUser" /\ res.status = 200) => res.id \in DOMAIN users

\* what does hold: a principal who is not an admin is answered 404 for a task
\* id that matches no record
C25_OwnerPathNotFound ==
    [][\A q \in Arrived :
          (q.op = "updateTask" /\ q.user.role = "user" /\ q.id \notin DOMAIN tasks) =>
              q.pc = "done" /\ q.status = 404]_vars

(***************************************************************************)
(* Properties of the role admin (SpecAdmins).                              *)
(***************************************************************************)
\* the users who hold the role admin after this step and did not before it
NewAdmins ==
    {i \in DOMAIN users' :
        users'[i].role = "admin" /\ (i \in DOMAIN users => users[i].role # "admin")}

\* this step is the UPDATE of a PUT /users/:id whose principal is an admin
ByAdmin == \E q \in Arrived : q.op = "updateUser" /\ q.user.role = "admin"

\* C26, as claimed: a user comes to hold the role admin only by the PUT
\* /users/:id of an admin principal.
C26_AdminByAdminOnly == [][NewAdmins # {} => ByAdmin]_vars

\* C26, amended: a user comes to hold the role admin only by the PUT
\* /users/:id of an admin principal, or by being registered with the role
\* admin in the registration body; login, refresh and PUT /auth/me give
\* nobody the role.
C26_AdminByAdminOrRegistration ==
    [][NewAdmins # {} =>
          \/ ByAdmin
          \/ /\ NewAdmins \cap DOMAIN users = {}
             /\ \E q \in Ended : q.op = "register" /\ Get(q.body, "role") = "admin"]_vars

\* a registration with the role admin in its body has stored an admin, and
\* john_doe, after a PUT /auth/me or not, is still a user
C26_Witness ==
    /\ res.op = "register" /\ res.status = 201 /\ res.data.user.role = "admin"
    /\ users[res.data.user.id].role = "admin"
    /\ users[2].role = "user"

(***************************************************************************)
(* Properties of transaction (SpecTransaction).                            *)
(***************************************************************************)
\* how many times the call q has made the given call
Calls(q, call) == Cardinality({i \in 1..Len(q.local) : q.local[i][1] = call})

\* the call q has made the given call and it ended as given
Did(q, call, how) == \E i \in 1..Len(q.local) : q.local[i] = <<call, how>>

\* the call q of transaction has returned or thrown, having had a connection
Finished(q) == q.op = "transaction" /\ q.pc = "done" /\ Did(q, "getConnection", "ok")

\* the connection is released exactly once, as the last thing the call does;
\* commit is issued only after the callback completed and, when it succeeds,
\* rollback is not issued and the result is returned; in every other case
\* rollback is issued and the call throws
ReleaseCommitRollback(q) ==
    /\ Calls(q, "release") = 1 /\ q.local[Len(q.local)][1] = "release"
    /\ Calls(q, "commit") <= 1 /\ Calls(q, "rollback") <= 1
    /\ Calls(q, "commit") = 1 => Did(q, "callback", "ok")
    /\ IF Did(q, "commit", "ok")
       THEN Calls(q, "rollback") = 0 /\ q.error = "" /\ q.data = [result |-> "result"]
       ELSE Calls(q, "rollback") = 1 /\ q.error # "" /\ q.data = Empty

\* the error that sent the call q into its catch block
Caught(q) ==
    IF Did(q, "beginTransaction", "rejected") THEN "beginTransaction rejected"
    ELSE IF Did(q, "callback", "rejected") THEN "callback rejected"
    ELSE IF Did(q, "commit", "rejected") THEN "commit rejected"
    ELSE ""

\* C29, as claimed: a call of transaction that had a connection has released
\* it exactly once, has issued commit only after the callback completed, and
\* has otherwise issued rollback and thrown the error that it caught.
C29_ReleasedOnceAndRethrown ==
    Finished(res) => /\ ReleaseCommitRollback(res)
                     /\ res.error = Caught(res)

\* C29, amended: a call of transaction that had a connection has released it
\* exactly once, has issued commit only after the callback completed, and
\* has otherwise issued rollback and thrown the error that it caught when
\* rollback succeeded, the rejection of rollback when it did not.
C29_ReleasedOnceAndThrown ==
    Finished(res) =>
        /\ ReleaseCommitRollback(res)
        /\ res.error = IF Did(res, "rollback", "rejected") THEN "rollback rejected"
                       ELSE Caught(res)

\* the callback has thrown, rollback has succeeded, the connection has been
\* released and the callback's error is thrown to the caller
C29_Witness ==
    /\ Finished(res) /\ Did(res, "callback", "rejected") /\ Did(res, "rollback", "ok")
    /\ Did(res, "release", "ok") /\ res.error = "callback rejected"

(***************************************************************************)
(* C30: in the client's AuthProvider, after any sequence of checkAuth,      *)
(* login, register, logout and updateUser, with any response of the server  *)
(* to the profile request, isAuthenticated is true exactly when user is     *)
(* non-null, loading is false once checkAuth has finished, and after logout *)
(* the token, refreshToken and user entries are absent from localStorage.   *)
(***************************************************************************)
C30_AuthProviderConsistent ==
    /\ client.isAuthenticated <=> ~IsNull(client.user)
    /\ client.checked => ~client.loading
    /\ client.last = "logout" => client.storage = NoStorage

\* C30, the two parts that hold: loading is false once checkAuth has
\* finished, and logout leaves none of the three entries in localStorage
C30_LoadedAndCleared ==
    /\ client.checked => ~client.loading
    /\ client.last = "logout" => client.storage = NoStorage

\* C30, the profile request of a deleted account: checkAuth has taken the
\* 200 of GET /auth/me whose user is null for a session
C30_AuthenticatedAsNobody ==
    ~(client.last = "checkAuth" /\ client.isAuthenticated /\ IsNull(client.user))

\* C30, updateUser while logged out: a user without a session
C30_UserWithoutSession ==
    ~(client.last = "updateUser" /\ ~client.isAuthenticated /\ ~IsNull(client.user)
      /\ IsNull(client.storage.token))

====
